---- MODULE Spec2Model ----
(***************************************************************************)
(* Order processing of core/models.py: Discount.is_valid,                  *)
(* MenuItem.caluclate_cost, Order.update_total_amount and OrderItem.save.  *)
(*                                                                         *)
(* Units.  DecimalField values with two decimal places (price, misc_cost,  *)
(* cost_per_unit, discount_value) are integers counting hundredths.        *)
(* total_amount and the intermediate sums of update_total_amount count     *)
(* millionths: price * discount_value / 100 has six decimal places, and    *)
(* Decimal arithmetic keeps them all.  FloatField quantities (stock,       *)
(* recipe quantity) are integers counting stock units.                     *)
(* An optional value (a nullable column) is <<>> for None and <<v>> for v. *)
(***************************************************************************)
EXTENDS Integers, Sequences, FiniteSets

VARIABLES
    discount,       \* Order.discount: None or the Discount row it points to
    now,            \* the clock read by timezone.now()
    items,          \* the OrderItem rows of the order, by primary key
    stock,          \* Ingredient.quantity of every ingredient row
    total_amount,   \* Order.total_amount
    last,           \* the last call made on the order and how it ended
    valid_result,   \* what the last Discount.is_valid call did
    cost_item,      \* the MenuItem given to caluclate_cost
    cost_result,    \* what the last caluclate_cost call did
    proc,           \* the OrderItem.save call each request is running
    saves           \* how many OrderItem.save calls were made

vars == <<discount, now, items, stock, total_amount, last, valid_result,
          cost_item, cost_result, proc, saves>>

\* ------------------------------------------------------------------ bounds
MaxQty == 2         \* OrderItem.quantity and Recipe.quantity range over 1..MaxQty
MaxSaves == 2       \* OrderItem.save calls in one behaviour
MaxTime == 2        \* the clock runs over 0..MaxTime

\* ----------------------------------------------------------------- catalog
None == <<>>
Some(v) == <<v>>

MenuItems == {"burger", "toast"}
Ingredients == {"bun", "patty"}

\* MenuItem.price, in hundredths.
MenuPrice == [m \in MenuItems |-> IF m = "burger" THEN 1000 ELSE 500]

\* The Recipe rows of a menu item: at most one per ingredient.
recipe_items(m) ==
    IF m = "burger"
    THEN {[ingredient |-> "bun", quantity |-> 1],
          [ingredient |-> "patty", quantity |-> 2]}
    ELSE {[ingredient |-> "bun", quantity |-> 2]}

\* Ingredient.quantity before any order line is saved.
InitStock == [i \in Ingredients |-> 3]

DiscountTypes == {"amount", "percentage", "coupon"}

\* The Discount rows: discount_value 10.00, with or without a date window.
Discounts ==
    [discount_type : DiscountTypes,
     discount_value : {1000},
     is_active : BOOLEAN,
     start_date : {None, Some(1)},
     end_date : {None, Some(1)},
     excluded_items : {{}, {"toast"}}]

\* What a call did: it returned a value or raised an exception.
Returned(v) == [raised |-> "", value |-> v]
Raised(e) == [raised |-> e, value |-> 0]
NotCalled == [raised |-> "not called", value |-> 0]

\* ------------------------------------------------- MenuItem.caluclate_cost
\* Ingredient.cost_per_unit values, in hundredths, and MenuItem.misc_cost.
CostsPerUnit == {50, 150}
MiscCosts == {0, 20, 55}

\* A menu item as caluclate_cost reads it: its Recipe rows, each with the
\* cost_per_unit of its ingredient, and its misc_cost.
RecipeRows ==
    [ingredient : Ingredients, cost_per_unit : CostsPerUnit, quantity : 1..MaxQty]
CostItems ==
    {[recipes |-> rs, misc_cost |-> m] :
        rs \in {x \in SUBSET RecipeRows :
                  \A a, b \in x : a.ingredient = b.ingredient => a = b},
        m \in MiscCosts}
NoCostItem == [recipes |-> {}, misc_cost |-> 0]

\* cost_per_unit * quantity: a DecimalField value times a FloatField value.
\* Decimal.__mul__ and float.__rmul__ both refuse the other type, so the
\* product raises TypeError: there is no value (None).
DecimalTimesFloat(cost_per_unit, quantity) == None

RECURSIVE SumCosts(_)
SumCosts(recipes) ==
    IF recipes = {} THEN 0
    ELSE LET recipe == CHOOSE r \in recipes : TRUE
         IN DecimalTimesFloat(recipe.cost_per_unit, recipe.quantity)[1]
                + SumCosts(recipes \ {recipe})

\* sum(...) evaluates every product, so one recipe line is enough to raise.
caluclate_cost(m) ==
    IF \E recipe \in m.recipes :
          DecimalTimesFloat(recipe.cost_per_unit, recipe.quantity) = None
    THEN Raised("TypeError")
    ELSE Returned(SumCosts(m.recipes) + m.misc_cost)

\* ------------------------------------------------------- Discount.is_valid
\* timezone.now() at clock t.  The module imports only models and User, so
\* the name timezone is unbound and evaluating it raises NameError: there is
\* no value (None), whatever the clock says.
timezone_now(t) == None

\* Returns "True" or "False", or raises ("NameError").  `a and b` evaluates b
\* only when a is truthy, so the clock is read only for a date that is set.
is_valid(d, t) ==
    IF ~d.is_active THEN "False"
    ELSE IF d.start_date # None /\ timezone_now(t) = None THEN "NameError"
    ELSE IF d.start_date # None /\ d.start_date[1] > timezone_now(t)[1] THEN "False"
    ELSE IF d.end_date # None /\ timezone_now(t) = None THEN "NameError"
    ELSE IF d.end_date # None /\ d.end_date[1] < timezone_now(t)[1] THEN "False"
    ELSE "True"

\* ------------------------------------------- Order.update_total_amount
\* OrderItem.subtotal, in hundredths.
subtotal(item) == IF item.is_free THEN 0 ELSE item.price * item.quantity

\* sum(item.subtotal for item in self.items.all()), in millionths.
RECURSIVE SumSubtotals(_)
SumSubtotals(rows) ==
    IF rows = <<>> THEN 0
    ELSE subtotal(Head(rows)) * 100 * 100 + SumSubtotals(Tail(rows))

\* The loop with an amount discount taken once per unit instead of once per
\* line.
RECURSIVE DiscountLoopPerUnit(_, _, _)
DiscountLoopPerUnit(rows, d, discount_amount) ==
    IF rows = <<>> THEN discount_amount
    ELSE LET item == Head(rows)
             step ==
                 IF item.menu_item \notin d.excluded_items
                 THEN IF d.discount_type = "amount"
                      THEN d.discount_value * 100 * 100 * item.quantity
                      ELSE IF d.discount_type = "percentage"
                      THEN item.price * d.discount_value * item.quantity
                      ELSE 0
                 ELSE 0
         IN DiscountLoopPerUnit(Tail(rows), d, discount_amount + step)

\* The for loop over self.items.all() that accumulates discount_amount.
RECURSIVE DiscountLoop(_, _, _)
DiscountLoop(rows, d, discount_amount) ==
    IF rows = <<>> THEN discount_amount
    ELSE LET item == Head(rows)
             step ==
                 IF item.menu_item \notin d.excluded_items
                 THEN IF d.discount_type = "amount"
                      THEN d.discount_value * 100 * 100
                      ELSE IF d.discount_type = "percentage"
                      THEN item.price * d.discount_value * item.quantity
                      ELSE 0
                 ELSE 0
         IN DiscountLoop(Tail(rows), d, discount_amount + step)

Max(a, b) == IF a >= b THEN a ELSE b

\* subtotal - discount_amount, given the sum of the subtotals and the rows
\* the discount loop reads.
Total(sub, rows, disc, t) ==
    sub - (IF disc # None /\ is_valid(disc[1], t) = "True"
           THEN DiscountLoop(rows, disc[1], 0)
           ELSE 0)

\* Whether update_total_amount raises: only is_valid can.
UpdateRaises(disc, t) == disc # None /\ is_valid(disc[1], t) = "NameError"

\* The assignment without max(total, 0).
UnclampedTotalAmount(sub, rows, disc, t) == Total(sub, rows, disc, t)

\* The assignment as self.total_amount += ... instead of =.
AccumulatedTotalAmount(sub, rows, disc, t) ==
    Max(total_amount + Total(sub, rows, disc, t), 0)

\* The value update_total_amount assigns to self.total_amount.
NewTotalAmount(sub, rows, disc, t) == Max(Total(sub, rows, disc, t), 0)

\* ------------------------------------------------------- OrderItem.save
\* The loop with the stock kept from going below 0.
RECURSIVE ReduceStockClamped(_, _, _)
ReduceStockClamped(recipes, quantity, st) ==
    IF recipes = {} THEN st
    ELSE LET recipe == CHOOSE r \in recipes : TRUE
         IN ReduceStockClamped(recipes \ {recipe}, quantity,
                [st EXCEPT ![recipe.ingredient] =
                    Max(@ - recipe.quantity * quantity, 0)])

\* The loop over self.menu_item.recipe_items.all(): every ingredient row is
\* fetched, lowered by recipe.quantity * self.quantity and saved.
RECURSIVE ReduceStock(_, _, _)
ReduceStock(recipes, quantity, st) ==
    IF recipes = {} THEN st
    ELSE LET recipe == CHOOSE r \in recipes : TRUE
         IN ReduceStock(recipes \ {recipe}, quantity,
                [st EXCEPT ![recipe.ingredient] = @ - recipe.quantity * quantity])

OrderItems ==
    [menu_item : MenuItems, quantity : 1..MaxQty,
     price : {MenuPrice[m] : m \in MenuItems}, is_free : BOOLEAN]

\* The body of save once the row is known: super().save() stores it, the
\* loop lowers the stock, update_total_amount recomputes the total or raises.
SaveBody(rows) ==
    LET item == rows[last'.line]
    IN  /\ items' = rows
        /\ stock' = ReduceStock(recipe_items(item.menu_item), item.quantity, stock)
        /\ total_amount' =
               IF UpdateRaises(discount, now) THEN total_amount
               ELSE NewTotalAmount(SumSubtotals(rows), rows, discount, now)
        /\ saves' = saves + 1
        /\ UNCHANGED <<discount, now, valid_result, cost_item, cost_result, proc>>

\* OrderItem(...).save() of a new line: the row gets the next primary key.
InsertOrderItem(item) ==
    /\ saves < MaxSaves
    /\ last' = [op |-> "insert", line |-> Len(items) + 1,
                ok |-> ~UpdateRaises(discount, now), again |-> FALSE]
    /\ SaveBody(Append(items, item))

\* line.quantity = q; line.save() of a line already stored.
ResaveOrderItem(l, q) ==
    /\ saves < MaxSaves
    /\ l \in DOMAIN items
    /\ last' = [op |-> "resave", line |-> l, ok |-> ~UpdateRaises(discount, now),
                again |-> FALSE]
    /\ SaveBody([items EXCEPT ![l].quantity = q])

\* order.update_total_amount() called on its own.
UpdateTotalAmount ==
    /\ last' = [op |-> "update", line |-> 0, ok |-> ~UpdateRaises(discount, now),
                again |-> last.op # "none" /\ last.ok]
    /\ total_amount' =
           IF UpdateRaises(discount, now) THEN total_amount
           ELSE NewTotalAmount(SumSubtotals(items), items, discount, now)
    /\ UNCHANGED <<discount, now, items, stock, valid_result, cost_item,
                   cost_result, proc, saves>>

\* No call was made on the order yet.  Later: op is the call ("insert" and
\* "resave" are OrderItem.save, "update" is update_total_amount), line the
\* primary key of the saved line, ok whether the call returned (it raised
\* otherwise), again whether an update_total_amount call directly followed a
\* call that ended with a completed update_total_amount.
NoCall == [op |-> "none", line |-> 0, ok |-> TRUE, again |-> FALSE]

\* A request that has not called save yet.
Procs == {1, 2}
Idle == [pc |-> "idle", line |-> 0, todo |-> {}, recipe |-> None, quantity |-> 0,
         seen |-> [i \in Ingredients |-> None], subtotal |-> 0,
         start |-> None]

Init ==
    /\ discount \in {None} \cup {Some(d) : d \in Discounts}
    /\ now = 0
    /\ items = <<>>
    /\ stock = InitStock
    /\ total_amount = 0
    /\ last = NoCall
    /\ valid_result = NotCalled
    /\ cost_item = NoCostItem
    /\ cost_result = NotCalled
    /\ proc = [p \in Procs |-> Idle]
    /\ saves = 0

Next ==
    \/ \E item \in OrderItems : InsertOrderItem(item)
    \/ \E l \in 1..MaxSaves, q \in 1..MaxQty : ResaveOrderItem(l, q)
    \/ UpdateTotalAmount

Spec == Init /\ [][Next]_vars

\* ------------------------------------------ the pure functions, applied
\* discount.is_valid() at the current clock.
CallIsValid ==
    /\ valid_result' =
           LET r == is_valid(discount[1], now)
           IN IF r = "NameError" THEN Raised(r) ELSE Returned(r = "True")
    /\ UNCHANGED <<discount, now, items, stock, total_amount, last, cost_item,
                   cost_result, proc, saves>>

\* Time passes.
Tick ==
    /\ now < MaxTime
    /\ now' = now + 1
    /\ valid_result' = NotCalled
    /\ UNCHANGED <<discount, items, stock, total_amount, last, cost_item,
                   cost_result, proc, saves>>

InitValid ==
    /\ discount \in {Some(d) : d \in Discounts}
    /\ now = 0
    /\ items = <<>>
    /\ stock = InitStock
    /\ total_amount = 0
    /\ last = NoCall
    /\ valid_result = NotCalled
    /\ cost_item = NoCostItem
    /\ cost_result = NotCalled
    /\ proc = [p \in Procs |-> Idle]
    /\ saves = 0

NextValid == CallIsValid \/ Tick

SpecValid == InitValid /\ [][NextValid]_vars

\* menu_item.caluclate_cost()
CallCaluclateCost ==
    /\ cost_result' = caluclate_cost(cost_item)
    /\ UNCHANGED <<discount, now, items, stock, total_amount, last, valid_result,
                   cost_item, proc, saves>>

InitCost ==
    /\ discount = None
    /\ now = 0
    /\ items = <<>>
    /\ stock = InitStock
    /\ total_amount = 0
    /\ last = NoCall
    /\ valid_result = NotCalled
    /\ cost_item \in CostItems
    /\ cost_result = NotCalled
    /\ proc = [p \in Procs |-> Idle]
    /\ saves = 0

NextCost == CallCaluclateCost

SpecCost == InitCost /\ [][NextCost]_vars

\* ------------------------------- OrderItem.save, one database call at a time
\* Two requests each save one new line.  Nothing in save opens a transaction
\* or locks a row, so every query is its own step and the steps of the two
\* requests interleave.
Other(p) == CHOOSE q \in Procs : q # p

\* The Discount rows the interleaved runs start from.
ConcDiscounts ==
    {d \in Discounts : d.end_date = None /\ d.excluded_items = {}
                        /\ d.discount_type # "coupon"}

\* The lines the two requests save: each at its menu item's price.
ConcOrderItems == {item \in OrderItems : item.price = MenuPrice[item.menu_item]}

UnchangedByRequest ==
    UNCHANGED <<discount, now, last, valid_result, cost_item, cost_result, saves>>

\* Where the request goes after a recipe line: the next one, or the total.
AfterLoop(todo) == IF todo = {} THEN "subtotal" ELSE "loop"

\* super().save(): the row is inserted.
BeginSave(p, item) ==
    /\ proc[p].pc = "idle"
    /\ items' = Append(items, item)
    /\ proc' = [proc EXCEPT ![p] =
           [@ EXCEPT !.pc = AfterLoop(recipe_items(item.menu_item)),
                     !.line = Len(items) + 1,
                     !.todo = recipe_items(item.menu_item),
                     !.quantity = item.quantity,
                     !.start = Some([stock |-> stock, total_amount |-> total_amount,
                                     alone |-> proc[Other(p)].pc \in {"done", "raised"}])]]
    /\ UNCHANGED <<stock, total_amount>>
    /\ UnchangedByRequest

\* ingredient = recipe.ingredient: the row is fetched; quantity -= ... then
\* changes the fetched copy only.
FetchIngredient(p, recipe) ==
    /\ proc[p].pc = "loop"
    /\ recipe \in proc[p].todo
    /\ proc' = [proc EXCEPT ![p] =
           [@ EXCEPT !.pc = "ingredient_save",
                     !.recipe = Some(recipe),
                     !.seen = [@ EXCEPT ![recipe.ingredient] =
                                   Some(stock[recipe.ingredient])]]]
    /\ UNCHANGED <<items, stock, total_amount>>
    /\ UnchangedByRequest

\* The write as an update in the database (quantity = quantity - n), which
\* lowers the row as it is at the time of the write.
NewQuantityInDatabase(p, recipe) ==
    stock[recipe.ingredient] - recipe.quantity * proc[p].quantity

\* The value ingredient.save() writes: the fetched quantity, lowered.
NewQuantity(p, recipe) ==
    proc[p].seen[recipe.ingredient][1] - recipe.quantity * proc[p].quantity

\* ingredient.save(): the lowered copy overwrites the row.
SaveIngredient(p) ==
    /\ proc[p].pc = "ingredient_save"
    /\ LET recipe == proc[p].recipe[1]
       IN /\ stock' = [stock EXCEPT ![recipe.ingredient] = NewQuantity(p, recipe)]
          /\ proc' = [proc EXCEPT ![p] =
                 [@ EXCEPT !.pc = AfterLoop(proc[p].todo \ {recipe}),
                           !.todo = @ \ {recipe},
                           !.recipe = None]]
    /\ UNCHANGED <<items, total_amount>>
    /\ UnchangedByRequest

\* The exception leaving a save that runs in a transaction: the ingredient
\* rows go back to what they were when save began.
RaiseAndRollBack(p) ==
    /\ proc' = [proc EXCEPT ![p].pc = "raised"]
    /\ stock' = proc[p].start[1].stock
    /\ UNCHANGED <<items, total_amount>>
    /\ UnchangedByRequest

\* An exception leaves save: no handler catches it and nothing that was
\* written is undone.
Raise(p) ==
    /\ proc' = [proc EXCEPT ![p].pc = "raised"]
    /\ UNCHANGED <<items, stock, total_amount>>
    /\ UnchangedByRequest

\* ingredient.save() fails in the database.
FailIngredientSave(p) ==
    /\ proc[p].pc = "ingredient_save"
    /\ Raise(p)

\* update_total_amount, first query: the sum of the subtotals.
ReadSubtotal(p) ==
    /\ proc[p].pc = "subtotal"
    /\ proc' = [proc EXCEPT ![p] =
           [@ EXCEPT !.pc = "discount", !.subtotal = SumSubtotals(items)]]
    /\ UNCHANGED <<items, stock, total_amount>>
    /\ UnchangedByRequest

\* update_total_amount, second query and self.save(): the discount over the
\* rows stored now, and the total written.
WriteTotal(p) ==
    /\ proc[p].pc = "discount"
    /\ ~UpdateRaises(discount, now)
    /\ total_amount' = NewTotalAmount(proc[p].subtotal, items, discount, now)
    /\ proc' = [proc EXCEPT ![p].pc = "done"]
    /\ UNCHANGED <<items, stock>>
    /\ UnchangedByRequest

\* update_total_amount raises: is_valid does, or self.save() fails.
FailUpdateTotal(p) ==
    /\ proc[p].pc = "discount"
    /\ Raise(p)

InitConc ==
    /\ discount \in {None} \cup {Some(d) : d \in ConcDiscounts}
    /\ now = 0
    /\ items = <<>>
    /\ stock = InitStock
    /\ total_amount = 0
    /\ last = NoCall
    /\ valid_result = NotCalled
    /\ cost_item = NoCostItem
    /\ cost_result = NotCalled
    /\ proc = [p \in Procs |-> Idle]
    /\ saves = 0

NextConc ==
    \E p \in Procs :
        \/ \E item \in ConcOrderItems : BeginSave(p, item)
        \/ \E recipe \in proc[p].todo : FetchIngredient(p, recipe)
        \/ SaveIngredient(p)
        \/ FailIngredientSave(p)
        \/ ReadSubtotal(p)
        \/ WriteTotal(p)
        \/ FailUpdateTotal(p)

SpecConc == InitConc /\ [][NextConc]_vars

\* ================================================================ claims
\* The sum of f[x] over the x in S.
RECURSIVE SumOver(_, _)
SumOver(f, S) ==
    IF S = {} THEN 0
    ELSE LET x == CHOOSE y \in S : TRUE IN f[x] + SumOver(f, S \ {x})

\* The quantity of the recipe line of menu item m for ingredient i; 0 when
\* m has no recipe line for i.
RecipeQuantity(m, i) ==
    IF \E r \in recipe_items(m) : r.ingredient = i
    THEN (CHOOSE r \in recipe_items(m) : r.ingredient = i).quantity
    ELSE 0

\* A discount is valid iff it is active and the clock is inside its window.
SpecIsValid(d, t) ==
    /\ d.is_active
    /\ d.start_date = None \/ d.start_date[1] <= t
    /\ d.end_date = None \/ d.end_date[1] >= t

\* The last call on the order ended with update_total_amount returning.
TotalRecomputed == last.op # "none" /\ last.ok

\* The step is an OrderItem.save call that completed.
SaveCompleted == saves' = saves + 1 /\ last'.ok

\* C1: every completed OrderItem.save (insert or re-save) of a line with
\* quantity q lowers the stock of each ingredient that has a recipe line of
\* quantity u for the line's menu item by exactly u*q, with no lower bound,
\* and leaves the stock of every other ingredient unchanged.
C1_SaveLowersStock ==
    [][SaveCompleted =>
         LET item == items'[last'.line]
         IN \A i \in Ingredients :
               stock'[i] = stock[i] - RecipeQuantity(item.menu_item, i) * item.quantity]_vars

\* A completed re-save of a toast line left the bun stock negative and the
\* patty stock, which toast has no recipe line for, where it started.
C1_Witness ==
    /\ last.op = "resave" /\ last.ok
    /\ items[last.line].menu_item = "toast"
    /\ stock["bun"] < 0
    /\ stock["patty"] = InitStock["patty"]

\* subtotal of the claim: the sum over the lines of 0 if is_free else
\* price * quantity, in millionths.
ClaimSubtotal(rows) ==
    SumOver([l \in DOMAIN rows |->
                IF rows[l].is_free THEN 0
                ELSE rows[l].price * rows[l].quantity * 10000],
            DOMAIN rows)

\* D of the claim, in millionths.
ClaimDiscount(rows, disc, t) ==
    IF disc = None THEN 0
    ELSE IF ~SpecIsValid(disc[1], t) \/ disc[1].discount_type = "coupon" THEN 0
    ELSE LET d == disc[1]
             qualifying == {l \in DOMAIN rows : rows[l].menu_item \notin d.excluded_items}
         IN IF d.discount_type = "amount"
            THEN d.discount_value * 10000 * Cardinality(qualifying)
            ELSE SumOver([l \in DOMAIN rows |->
                             rows[l].price * d.discount_value * rows[l].quantity],
                         qualifying)

\* The order of the scenarios: 10.00 x 2 and 5.00 x 1, neither free.
ScenarioItems ==
    <<[menu_item |-> "burger", quantity |-> 2, price |-> 1000, is_free |-> FALSE],
      [menu_item |-> "toast", quantity |-> 1, price |-> 500, is_free |-> FALSE]>>

\* A valid 10 percent discount that excludes the menu items of ex.
TenPercent(ex) ==
    Some([discount_type |-> "percentage", discount_value |-> 1000,
          is_active |-> TRUE, start_date |-> None, end_date |-> None,
          excluded_items |-> ex])

\* C2: after update_total_amount returns, total_amount = max(0, subtotal - D)
\* with subtotal and D as the claim defines them; the lines 10.00 x 2 and
\* 5.00 x 1 give 25.00 with no discount, 22.50 with a 10 percent discount
\* and 23.00 when the 5.00 item is excluded.
C2_TotalAmount ==
    TotalRecomputed =>
        /\ total_amount =
               Max(0, ClaimSubtotal(items) - ClaimDiscount(items, discount, now))
        /\ items = ScenarioItems =>
               /\ discount = None => total_amount = 25000000
               /\ discount = TenPercent({}) => total_amount = 22500000
               /\ discount = TenPercent({"toast"}) => total_amount = 23000000

\* update_total_amount returned on the scenario order with the 5.00 item
\* excluded from a 10 percent discount.
C2_Witness ==
    /\ TotalRecomputed
    /\ items = ScenarioItems
    /\ discount = TenPercent({"toast"})
    /\ total_amount = 23000000

\* C3: in every reachable state the order's total_amount is at least 0,
\* also when the accumulated discount exceeds the subtotal.
C3_TotalNeverNegative == total_amount >= 0

\* update_total_amount returned on an order whose discount exceeds its
\* subtotal, and the total is 0.
C3_Witness ==
    /\ TotalRecomputed
    /\ ClaimDiscount(items, discount, now) > ClaimSubtotal(items)
    /\ total_amount = 0

\* C4: update_total_amount called directly after a call that ended with a
\* completed update_total_amount, with the lines, the discount and the clock
\* unchanged in between, leaves total_amount as the first call left it.
C4_UpdateIdempotent ==
    [][(TotalRecomputed /\ last'.op = "update" /\ last'.ok
            /\ items' = items /\ discount' = discount /\ now' = now)
         => total_amount' = total_amount]_vars

\* update_total_amount ran twice in a row on an order with lines and a valid
\* percentage discount that takes something off.
C4_Witness ==
    /\ last.op = "update" /\ last.ok /\ last.again
    /\ total_amount > 0
    /\ ClaimDiscount(items, discount, now) > 0

\* C9: after any sequence of completed, non-overlapping OrderItem.save
\* calls, the stock of every ingredient equals its initial stock minus the
\* sum over the stored lines of recipe.quantity * line.quantity: a re-save
\* does not consume the ingredients a second time.
C9_StockMatchesStoredLines ==
    ~UpdateRaises(discount, now) =>
        \A i \in Ingredients :
            stock[i] = InitStock[i]
                - SumOver([l \in DOMAIN items |->
                              RecipeQuantity(items[l].menu_item, i) * items[l].quantity],
                          DOMAIN items)

\* The rows without row l.
Without(rows, l) == SubSeq(rows, 1, l - 1) \o SubSeq(rows, l + 1, Len(rows))

\* C10: for an order with a valid amount or percentage discount, the
\* total_amount computed with an additional is_free line whose menu item is
\* not excluded equals the total_amount computed without that line.
C10_FreeLineChangesNothing ==
    \A l \in DOMAIN items :
        (/\ TotalRecomputed
         /\ items[l].is_free
         /\ discount # None
         /\ SpecIsValid(discount[1], now)
         /\ discount[1].discount_type \in {"amount", "percentage"}
         /\ items[l].menu_item \notin discount[1].excluded_items)
        => total_amount =
              NewTotalAmount(SumSubtotals(Without(items, l)), Without(items, l),
                             discount, now)

\* C5: is_valid returns false when is_active is false, when start_date is
\* set and now < start_date, or when end_date is set and now > end_date,
\* and true in every other case; it always returns a boolean, never fails.
C5_IsValidAsSpecified ==
    valid_result # NotCalled =>
        valid_result = Returned(SpecIsValid(discount[1], now))

\* C6: caluclate_cost returns the sum over the recipe lines of
\* cost_per_unit * quantity plus misc_cost, with no error for any number of
\* recipe lines.
C6_CostAsSpecified ==
    cost_result # NotCalled =>
        cost_result =
            Returned(SumOver([r \in cost_item.recipes |-> r.cost_per_unit * r.quantity],
                             cost_item.recipes)
                     + cost_item.misc_cost)

\* What the save of request p takes from ingredient i.
Decrement(p, i) ==
    RecipeQuantity(items[proc[p].line].menu_item, i) * proc[p].quantity

\* C7: when two concurrent saves have both completed after both fetched
\* the same quantity of an ingredient, the stock holds one decrement only:
\* it is higher than the initial stock minus the sum of both decrements.
C7_LostUpdate ==
    \A i \in Ingredients :
        (/\ proc[1].pc = "done" /\ proc[2].pc = "done"
         /\ proc[1].seen[i] # None
         /\ proc[1].seen[i] = proc[2].seen[i])
        => /\ stock[i] > InitStock[i] - (Decrement(1, i) + Decrement(2, i))
           /\ stock[i] \in {InitStock[i] - Decrement(1, i), InitStock[i] - Decrement(2, i)}

\* Both saves completed, one of a burger and one of a toast; both fetched
\* the same bun stock and one decrement is lost.
C7_Witness ==
    /\ proc[1].pc = "done" /\ proc[2].pc = "done"
    /\ items[proc[1].line].menu_item # items[proc[2].line].menu_item
    /\ proc[1].seen["bun"] # None
    /\ proc[1].seen["bun"] = proc[2].seen["bun"]
    /\ stock["bun"] > InitStock["bun"] - (Decrement(1, "bun") + Decrement(2, "bun"))

\* The save of request p did not overlap the save of the other request.
NoOverlap(p) == proc[Other(p)].pc = "idle" \/ proc[p].start[1].alone

\* The ingredients whose decrement request p has persisted.
Persisted(p) ==
    {r.ingredient : r \in recipe_items(items[proc[p].line].menu_item) \ proc[p].todo}

\* C8: when a save raises at the k-th ingredient decrement or in the total
\* recomputation, the OrderItem row and the decrements persisted before
\* stay in storage and total_amount keeps its previous value.
C8_NoRollback ==
    \A p \in Procs :
        (proc[p].pc = "raised" /\ NoOverlap(p))
        => /\ proc[p].line \in DOMAIN items
           /\ \A i \in Ingredients :
                 stock[i] = proc[p].start[1].stock[i]
                              - (IF i \in Persisted(p) THEN Decrement(p, i) ELSE 0)
           /\ total_amount = proc[p].start[1].total_amount

\* A save raised at its second ingredient decrement, after the first was
\* persisted, on an order whose total was not 0.
C8_Witness ==
    \E p \in Procs :
        /\ proc[p].pc = "raised" /\ NoOverlap(p)
        /\ Persisted(p) # {} /\ proc[p].todo # {}
        /\ \E i \in Persisted(p) : stock[i] < proc[p].start[1].stock[i]
        /\ total_amount > 0

====
